---- MODULE Spec2Model ----
(***************************************************************************)
(* Model of getRepositoryFromWizard                                        *)
(* (pkg/cmd/workspace/util/repository_wizard.go).                          *)
(*                                                                         *)
(* The wizard is one sequential function.  It blocks at calls to external  *)
(* collaborators (the API client and the interactive prompts); pc names    *)
(* the call the wizard is blocked in, and each action is the return of     *)
(* that call together with all the code that runs up to the next call.     *)
(* MultiProject and ProjectOrder are only handed through to the prompts    *)
(* and never read by the wizard, so they are not part of the state.        *)
(***************************************************************************)
EXTENDS Integers, Sequences, FiniteSets, TLC

(* ------------------------------ bounds --------------------------------- *)

\* Largest number of items a fetch of namespaces or repositories returns.
MaxItems == 2

\* Largest number of samples ListSamples returns.
MaxSamples == 1

\* Largest number of times in one run that the user answers a prompt with a
\* navigation intent the loop goes back to its head for.
MaxNavigations == 2

(* --------------------------- value universes --------------------------- *)

NamespaceUniverse == <<"ns1", "ns2", "ns3", "ns4">>

RepoUniverse == <<"r1", "r2", "r3", "r4">>

SampleUniverse == <<"s1", "s2", "s3", "s4">>

\* selection.CustomRepoIdentifier and selection.CREATE_FROM_SAMPLE
CustomRepoIdentifier == "<CUSTOM_REPO>"

CREATE_FROM_SAMPLE == "<CREATE_FROM_SAMPLE>"

\* page := int32(1), perPage := int32(100)
FirstPage == 1

PerPage == 100

\* common.ErrCtrlCAbort, and the other error values the wizard can return
ErrCtrlCAbort == "ErrCtrlCAbort"

NoErr == "nil"

\* The error a failed GetNamespaces or GetRepositories call returns, and the
\* error apiclient_util.HandleErrorResponse makes of a failed GetGitContext.
FetchError == "connection refused"

GitContextError == "HandleErrorResponse(connection refused)"

\* a nil *apiclient.GitRepository
NoRepo == [Id |-> "", Branch |-> ""]

Repo(id) == [Id |-> id, Branch |-> ""]

Namespace(id) == [Id |-> id, Name |-> "name-of-" \o id]

\* The first n items of a universe, as the list a fetch returns.
Items(universe, n) == [i \in 1..n |-> universe[i]]

NamespaceLists == {[i \in 1..n |-> Namespace(NamespaceUniverse[i])] : n \in 0..MaxItems}

RepoLists == {[i \in 1..n |-> Repo(RepoUniverse[i])] : n \in 0..MaxItems}

SampleLists == {Items(SampleUniverse, n) : n \in 0..MaxSamples}

\* config_const.GetSupportedGitProviders() (called at line 58): the provider
\* kinds the client knows; they include the four ids of the switch at line 24.
GetSupportedGitProviders ==
    {"github", "gitlab", "bitbucket", "bitbucket-server", "azure-devops",
     "gitness", "aws-codecommit"}

GitProvider(id, kind) == [Id |-> id, ProviderId |-> kind]

\* The configurations of config.UserGitProviders the model starts from: none,
\* two providers (one with pagination everywhere, one with the repository
\* exception), one provider of each kind without pagination, and one of a
\* kind the client does not support.
UserGitProviderChoices ==
    {<<>>,
     <<GitProvider("gp1", "github"), GitProvider("gp2", "bitbucket")>>,
     <<GitProvider("gp1", "azure-devops")>>,
     <<GitProvider("gp1", "gitness")>>,
     <<GitProvider("gp1", "aws-codecommit")>>,
     <<GitProvider("gp1", "unknown-kind")>>}

EmptyMap == [x \in {} |-> 0]

SelectedReposChoices == {EmptyMap, [x \in {"r1"} |-> 1]}

(* ------------------------------- state --------------------------------- *)

VARIABLES
    \* RepositoryWizardConfig
    UserGitProviders, Manual, SkipBranchSelection, SelectedRepos,
    \* locals of getRepositoryFromWizard
    samples, gitProviderViewList, gitProviderConfigId, providerId,
    navigate, page, perPage, namespaceList, namespace, namespaceId,
    isOnlySingleNamespaceAvailable, providerRepos, chosenRepo,
    \* the sample GetSampleFromPrompt returned (line 88) and the
    \* BranchWizardConfig handed to SetBranchFromWizard (lines 219-227)
    sample, branchWizardConfig,
    \* the call the wizard is blocked in, "done" after it returned
    pc,
    \* the returned (*GitRepository, error)
    retRepo, retErr,
    \* observation of the run: number of calls made to each collaborator, the
    \* last fetch, the last prompt's outcome, the number of fetches of the
    \* current stage since its last prompt, the size of the first namespace
    \* page, whether ListSamples failed, whether the sample option was
    \* offered, the SelectedRepos the run started with, what ended the run
    calls, lastFetch, lastPrompt, fetchesSincePrompt, firstNamespaceCount,
    samplesFailed, sampleOffered, initialSelectedRepos, endedBy

vars == <<UserGitProviders, Manual, SkipBranchSelection, SelectedRepos,
          samples, gitProviderViewList, gitProviderConfigId, providerId,
          navigate, page, perPage, namespaceList, namespace, namespaceId,
          isOnlySingleNamespaceAvailable, providerRepos, chosenRepo,
          sample, branchWizardConfig,
          pc, retRepo, retErr,
          calls, lastFetch, lastPrompt, fetchesSincePrompt, firstNamespaceCount,
          samplesFailed, sampleOffered, initialSelectedRepos, endedBy>>

configVars == <<UserGitProviders, Manual, SkipBranchSelection, SelectedRepos,
                initialSelectedRepos>>

Collaborators ==
    {"ListSamples", "GetRepositoryFromUrlInput", "GetProviderIdFromPrompt",
     "GetSampleFromPrompt", "GetGitContext", "GetNamespaces",
     "GetNamespaceIdFromPrompt", "GetRepositories", "GetRepositoryFromPrompt",
     "SetBranchFromWizard"}

callVars == <<sample, branchWizardConfig>>

\* No sample (a nil *apiclient.Sample) and no BranchWizardConfig built yet.
NoSample == ""

NoBranchWizardConfig ==
    [GitProviderConfigId |-> "", NamespaceId |-> "", Namespace |-> "",
     ChosenRepo |-> NoRepo, ProviderId |-> ""]

NoFetch == [kind |-> "", page |-> 0, perPage |-> 0, parent |-> "", count |-> 0]

NoPrompt == [kind |-> "", page |-> 0, navigate |-> "", selected |-> FALSE,
             paginationDisabled |-> FALSE]

Called(c) == [calls EXCEPT ![c] = @ + 1]

\* Every fetch of a stage but its first follows a navigation.
Navigations ==
    (IF calls["GetNamespaces"] > 0 THEN calls["GetNamespaces"] - 1 ELSE 0)
        + (IF calls["GetRepositories"] > 0 THEN calls["GetRepositories"] - 1 ELSE 0)

(* --------------------------- pure functions ---------------------------- *)

isGitProviderWithUnsupportedPagination(id) ==
    id \in {"azure-devops", "bitbucket", "gitness", "aws-codecommit"}

\* line 141: the namespace loop's isPaginationDisabled
NamespacePaginationDisabled(id) == isGitProviderWithUnsupportedPagination(id)

\* The provider-level flag alone, without the bitbucket exception.
RepositoryPaginationDisabledNoException(id) ==
    isGitProviderWithUnsupportedPagination(id)

\* line 195: the repository loop's isPaginationDisabled
RepositoryPaginationDisabled(id) ==
    isGitProviderWithUnsupportedPagination(id) /\ id # "bitbucket"

\* The sample list is not looked at.
GoesToUrlInputIgnoringSamples(providers, smpls, manual) ==
    Len(providers) = 0 \/ manual

\* line 53: the wizard goes straight to manual URL entry
GoesToUrlInput(providers, smpls, manual) ==
    (Len(providers) = 0 /\ Len(smpls) = 0) \/ manual

\* The create-from-sample option is offered whatever ListSamples returned.
OffersSampleAlways(smpls) == TRUE

\* line 77: the prompt offers the create-from-sample option (len(samples) > 0)
OffersSample(smpls) == Len(smpls) > 0

\* lines 61-75: the configured providers of a supported kind, in order
RECURSIVE BuildGitProviderViewList(_)
BuildGitProviderViewList(providers) ==
    IF providers = <<>> THEN <<>>
    ELSE LET gp == Head(providers)
             rest == BuildGitProviderViewList(Tail(providers))
         IN IF gp.ProviderId \in GetSupportedGitProviders
            THEN <<gp>> \o rest
            ELSE rest

\* lines 103-108: the provider kind of the chosen configuration (last match wins)
RECURSIVE LookupProviderId(_, _, _)
LookupProviderId(viewList, configId, acc) ==
    IF viewList = <<>> THEN acc
    ELSE LookupProviderId(Tail(viewList), configId,
                          IF Head(viewList).Id = configId
                          THEN Head(viewList).ProviderId ELSE acc)

\* lines 153-157 and 163-167: the name of the namespace with the given id
RECURSIVE LookupNamespaceName(_, _, _)
LookupNamespaceName(list, id, acc) ==
    IF list = <<>> THEN acc
    ELSE LookupNamespaceName(Tail(list), id,
                             IF Head(list).Id = id THEN Head(list).Name ELSE acc)

\* The first page's first item is taken whenever there is one.
ShortCircuitOnAnyNamespace(isOnlySingle, list) ==
    isOnlySingle /\ Len(list) >= 1

\* line 132: the single-result short-circuit of the namespace loop
SingleNamespaceShortCircuit(isOnlySingle, list) ==
    isOnlySingle /\ Len(list) = 1

\* line 111: the page cursor is an int32
MaxInt32 == 2147483647

\* page++ on an int32 wraps around at the top of its range
Int32Inc(n) == IF n = MaxInt32 THEN (-MaxInt32) - 1 ELSE n + 1

\* prev moves the cursor down whatever page it is on.
PageAfterNavigateUnclamped(nav, pg) ==
    IF nav = "next" THEN Int32Inc(pg)
    ELSE IF nav = "prev" THEN pg - 1
    ELSE pg

\* page++ in both branches.
PageAfterNavigateBothIncrement(nav, pg) ==
    IF nav = "next" THEN pg + 1
    ELSE IF nav = "prev" /\ pg > 1 THEN pg + 1
    ELSE pg

\* lines 144-151 and 199-206: the page after a navigation outcome
PageAfterNavigate(nav, pg) ==
    IF nav = "next" THEN Int32Inc(pg)
    ELSE IF nav = "prev" /\ pg > 1 THEN pg - 1
    ELSE pg

\* No selection leaves the loop like a selection does.
LoopStepBreaksOnCancel(paginationDisabled, nav, pg, hasSelection) ==
    IF ~paginationDisabled /\ nav # ""
    THEN IF nav = "next" \/ (nav = "prev" /\ pg > 1) THEN "continue"
         ELSE "fallthrough"
    ELSE "break"

\* The if/else-if chain flattened: a navigation that is not acted on is
\* handled as a selection or a cancellation.
LoopStepFlattened(paginationDisabled, nav, pg, hasSelection) ==
    IF ~paginationDisabled /\ (nav = "next" \/ (nav = "prev" /\ pg > 1))
    THEN "continue"
    ELSE IF hasSelection THEN "break"
    ELSE "abort"

\* A prompt left without a selection is shown again.
LoopStepPromptsAgainOnCancel(paginationDisabled, nav, pg, hasSelection) ==
    IF ~paginationDisabled /\ nav # ""
    THEN IF nav = "next" \/ (nav = "prev" /\ pg > 1) THEN "continue"
         ELSE "fallthrough"
    ELSE IF hasSelection THEN "break"
    ELSE "fallthrough"

\* With pagination disabled a navigation intent ends the run, selection or not.
LoopStepNavigationAborts(paginationDisabled, nav, pg, hasSelection) ==
    IF ~paginationDisabled /\ nav # ""
    THEN IF nav = "next" \/ (nav = "prev" /\ pg > 1) THEN "continue"
         ELSE "fallthrough"
    ELSE IF hasSelection /\ nav = "" THEN "break"
    ELSE "abort"

\* The navigation intent is acted on whether or not pagination is disabled.
LoopStepIgnoresPaginationFlag(paginationDisabled, nav, pg, hasSelection) ==
    IF nav # ""
    THEN IF nav = "next" \/ (nav = "prev" /\ pg > 1) THEN "continue"
         ELSE "fallthrough"
    ELSE IF hasSelection THEN "break"
    ELSE "abort"

\* lines 144-162 and 199-212: what the loop does with a prompt's outcome:
\* "continue" is the continue statement after page++ or page--, "fallthrough"
\* runs to the end of the loop body (both go on at the head of the for loop),
\* "break" leaves the loop with the selection, "abort" returns
\* common.ErrCtrlCAbort.
LoopStep(paginationDisabled, nav, pg, hasSelection) ==
    IF ~paginationDisabled /\ nav # ""
    THEN IF nav = "next" \/ (nav = "prev" /\ pg > 1) THEN "continue"
         ELSE "fallthrough"
    ELSE IF hasSelection THEN "break"
    ELSE "abort"

\* The head of each for loop is its fetch (lines 117-120 and 176-181).
NamespaceLoopHead == "GetNamespaces"

RepositoryLoopHead == "GetRepositories"

\* The flag is not looked at.
SkipBranchSelectionIgnored(skip) == FALSE

\* line 215
SkipsBranchStage(skip) == skip

(* ------------------------------- Init ---------------------------------- *)

Init ==
    /\ UserGitProviders \in UserGitProviderChoices
    /\ Manual \in BOOLEAN
    /\ SkipBranchSelection \in BOOLEAN
    /\ SelectedRepos \in SelectedReposChoices
    /\ initialSelectedRepos = SelectedRepos
    /\ samples = <<>>
    /\ gitProviderViewList = <<>>
    /\ gitProviderConfigId = ""
    /\ providerId = ""
    /\ navigate = ""
    /\ page = 0
    /\ perPage = 0
    /\ namespaceList = <<>>
    /\ namespace = ""
    /\ namespaceId = ""
    /\ isOnlySingleNamespaceAvailable = FALSE
    /\ providerRepos = <<>>
    /\ chosenRepo = NoRepo
    /\ sample = NoSample
    /\ branchWizardConfig = NoBranchWizardConfig
    /\ pc = "ListSamples"
    /\ retRepo = NoRepo
    /\ retErr = NoErr
    /\ calls = [c \in Collaborators |-> 0]
    /\ lastFetch = NoFetch
    /\ lastPrompt = NoPrompt
    /\ fetchesSincePrompt = 0
    /\ firstNamespaceCount = -1
    /\ samplesFailed = FALSE
    /\ sampleOffered = FALSE
    /\ endedBy = ""

(* ------------------------- leaving the wizard -------------------------- *)

\* return repo, err
Return(repo, err, why) ==
    /\ pc' = "done"
    /\ retRepo' = repo
    /\ retErr' = err
    /\ endedBy' = why

Running(next) ==
    /\ pc' = next
    /\ UNCHANGED <<retRepo, retErr, endedBy>>

\* A failed stage fetch of the previous attempt is fetched again.
FetchErrorRetried(err, why) == Running(pc)

\* lines 128-130 and 189-191: if err != nil { return nil, err }
FetchErrorReturn(err, why) == Return(NoRepo, err, why)

\* The cancellation signal is returned inside another error.
CancelReturnWrapped(why) == Return(NoRepo, "aborted: " \o ErrCtrlCAbort, why)

\* lines 79, 90, 161 and 211: return nil, common.ErrCtrlCAbort
CancelReturn(why) == Return(NoRepo, ErrCtrlCAbort, why)

loopVars == <<navigate, page, perPage, namespaceList, namespace, namespaceId,
              isOnlySingleNamespaceAvailable, providerRepos, chosenRepo>>

observedLoop == <<lastFetch, lastPrompt, fetchesSincePrompt, firstNamespaceCount>>

(* ------------------------ choosing the source -------------------------- *)

\* lines 48-75: ListSamples returns.  A failure is only logged; the client
\* returns no samples with an error.  Then the wizard either goes to manual
\* URL entry or builds the provider list and shows the provider prompt.
ListSamples ==
    /\ pc = "ListSamples"
    /\ \E failed \in BOOLEAN :
       \E got \in (IF failed THEN {<<>>} ELSE SampleLists) :
          /\ samples' = got
          /\ samplesFailed' = failed
          /\ IF GoesToUrlInput(UserGitProviders, got, Manual)
             THEN /\ Running("GetRepositoryFromUrlInput")
                  /\ UNCHANGED <<gitProviderViewList, sampleOffered>>
             ELSE /\ gitProviderViewList' = BuildGitProviderViewList(UserGitProviders)
                  /\ sampleOffered' = OffersSample(got)
                  /\ Running("GetProviderIdFromPrompt")
    /\ calls' = Called("ListSamples")
    /\ UNCHANGED <<configVars, gitProviderConfigId, providerId, loopVars, observedLoop,
                   callVars>>

\* lines 54-55 and 83-84: create.GetRepositoryFromUrlInput returns and the
\* wizard returns its result as it is.
UrlInputOutcomes ==
    {[repo |-> [Id |-> "url-repo", Branch |-> "main"], err |-> NoErr],
     [repo |-> NoRepo, err |-> "UrlInputError"],
     [repo |-> NoRepo, err |-> ErrCtrlCAbort]}

GetRepositoryFromUrlInput ==
    /\ pc = "GetRepositoryFromUrlInput"
    /\ \E out \in UrlInputOutcomes : Return(out.repo, out.err, "UrlInput")
    /\ calls' = Called("GetRepositoryFromUrlInput")
    /\ UNCHANGED <<configVars, samples, gitProviderViewList, gitProviderConfigId,
                   providerId, loopVars, observedLoop, samplesFailed, sampleOffered,
                   callVars>>

\* What selection.GetProviderIdFromPrompt can return: nothing (the user
\* cancelled), the custom URL option, the create-from-sample option when it
\* is offered, or the id of a listed provider configuration.
ProviderPromptOutcomes(viewList, withSamples) ==
    {"", CustomRepoIdentifier}
        \cup (IF withSamples THEN {CREATE_FROM_SAMPLE} ELSE {})
        \cup {viewList[i].Id : i \in 1..Len(viewList)}

\* lines 77-115: GetProviderIdFromPrompt returns.
GetProviderIdFromPrompt ==
    /\ pc = "GetProviderIdFromPrompt"
    /\ calls' = Called("GetProviderIdFromPrompt")
    /\ \E id \in ProviderPromptOutcomes(gitProviderViewList, sampleOffered) :
          /\ gitProviderConfigId' = id
          /\ IF id = ""
             THEN /\ CancelReturn("ProviderCancelled")
                  /\ UNCHANGED <<providerId, loopVars>>
             ELSE IF id = CustomRepoIdentifier
             THEN /\ Running("GetRepositoryFromUrlInput")
                  /\ UNCHANGED <<providerId, loopVars>>
             ELSE IF id = CREATE_FROM_SAMPLE
             THEN /\ Running("GetSampleFromPrompt")
                  /\ UNCHANGED <<providerId, loopVars>>
             ELSE /\ providerId' = LookupProviderId(gitProviderViewList, id, "")
                  /\ navigate' = ""
                  /\ page' = FirstPage
                  /\ perPage' = PerPage
                  /\ namespaceList' = <<>>
                  /\ namespace' = ""
                  /\ isOnlySingleNamespaceAvailable' = TRUE
                  /\ Running("GetNamespaces")
                  /\ UNCHANGED <<namespaceId, providerRepos, chosenRepo>>
    /\ UNCHANGED <<configVars, samples, gitProviderViewList, observedLoop,
                   samplesFailed, sampleOffered, callVars>>

\* A nil sample is not told from a chosen one.
SampleNeverNil(s) == FALSE

\* line 89: sample == nil
SampleIsNil(s) == s = NoSample

\* lines 88-91: GetSampleFromPrompt returns a sample or nil.
GetSampleFromPrompt ==
    /\ pc = "GetSampleFromPrompt"
    /\ calls' = Called("GetSampleFromPrompt")
    /\ \E chosen \in {NoSample} \cup {samples[i] : i \in 1..Len(samples)} :
          /\ sample' = chosen
          /\ IF SampleIsNil(chosen)
             THEN CancelReturn("SampleCancelled")
             ELSE Running("GetGitContext")
    /\ UNCHANGED <<configVars, samples, gitProviderViewList, gitProviderConfigId,
                   providerId, loopVars, observedLoop, samplesFailed, sampleOffered,
                   branchWizardConfig>>

\* lines 93-100: GetGitContext returns the sample's repository or fails.
GetGitContext ==
    /\ pc = "GetGitContext"
    /\ calls' = Called("GetGitContext")
    /\ \E ok \in BOOLEAN :
          IF ok
          THEN Return([Id |-> "sample-repo", Branch |-> "main"], NoErr, "GitContext")
          ELSE Return(NoRepo, GitContextError, "GitContextFailed")
    /\ UNCHANGED <<configVars, samples, gitProviderViewList, gitProviderConfigId,
                   providerId, loopVars, observedLoop, samplesFailed, sampleOffered,
                   callVars>>


(* -------------------------- namespace stage ---------------------------- *)

sourceVars == <<samples, gitProviderViewList, gitProviderConfigId, providerId,
                samplesFailed, sampleOffered>>

\* The page cursor of the namespace loop is carried into the repository loop.
EnterRepositoryStageKeepingPage ==
    /\ UNCHANGED <<page, perPage>>
    /\ Running("GetRepositories")

\* lines 170-175: the namespace loop was left with a selection; the page
\* cursor is set again and the repository loop starts.
EnterRepositoryStage ==
    /\ page' = FirstPage
    /\ perPage' = PerPage
    /\ Running("GetRepositories")

\* The flag is left as it is.
OnlySingleNeverCleared(isOnlySingle) == isOnlySingle

\* lines 136-138: else { isOnlySingleNamespaceAvailable = false }
OnlySingleAfterFirstPage(isOnlySingle) == FALSE

\* lines 117-143: GetNamespaces returns, for the page the cursor is on.
GetNamespaces ==
    /\ pc = "GetNamespaces"
    /\ calls' = Called("GetNamespaces")
    /\ \E failed \in BOOLEAN :
       \E got \in (IF failed THEN {<<>>} ELSE NamespaceLists) :
          /\ lastFetch' = [kind |-> "namespace", page |-> page, perPage |-> perPage,
                           parent |-> "", count |-> IF failed THEN -1 ELSE Len(got)]
          /\ firstNamespaceCount' =
                IF calls["GetNamespaces"] = 0 /\ ~failed THEN Len(got)
                ELSE firstNamespaceCount
          /\ namespaceList' = got
          /\ fetchesSincePrompt' =
                IF ~failed /\ SingleNamespaceShortCircuit(isOnlySingleNamespaceAvailable, got)
                THEN 0 ELSE fetchesSincePrompt + 1
          /\ IF failed
             THEN /\ FetchErrorReturn(FetchError, "NamespaceFetchFailed")
                  /\ UNCHANGED <<namespaceId, namespace, page, perPage,
                                 isOnlySingleNamespaceAvailable>>
             ELSE IF SingleNamespaceShortCircuit(isOnlySingleNamespaceAvailable, got)
             THEN /\ namespaceId' = got[1].Id
                  /\ namespace' = got[1].Name
                  /\ EnterRepositoryStage
                  /\ UNCHANGED isOnlySingleNamespaceAvailable
             ELSE /\ isOnlySingleNamespaceAvailable' =
                        OnlySingleAfterFirstPage(isOnlySingleNamespaceAvailable)
                  /\ Running("GetNamespaceIdFromPrompt")
                  /\ UNCHANGED <<namespaceId, namespace, page, perPage>>
    /\ UNCHANGED <<configVars, sourceVars, navigate, providerRepos, chosenRepo,
                   lastPrompt, callVars>>

\* What a paged prompt can return: the id of a listed item or nothing,
\* together with a navigation intent or none.
NavigateOutcomes == {"", "next", "prev"}

ListedIds(list) == {list[i].Id : i \in 1..Len(list)}

\* lines 141-168: GetNamespaceIdFromPrompt returns.
GetNamespaceIdFromPrompt ==
    /\ pc = "GetNamespaceIdFromPrompt"
    /\ calls' = Called("GetNamespaceIdFromPrompt")
    /\ fetchesSincePrompt' = 0
    /\ \E id \in {""} \cup ListedIds(namespaceList), nav \in NavigateOutcomes :
          LET isPaginationDisabled == NamespacePaginationDisabled(providerId)
              step == LoopStep(isPaginationDisabled, nav, page, id # "")
          IN /\ step \in {"continue", "fallthrough"} => Navigations < MaxNavigations
             /\ namespaceId' = id
             /\ navigate' = nav
             /\ lastPrompt' = [kind |-> "namespace", page |-> page, navigate |-> nav,
                               selected |-> (id # ""),
                               paginationDisabled |-> isPaginationDisabled]
             /\ CASE step = "continue" ->
                       /\ page' = PageAfterNavigate(nav, page)
                       /\ Running(NamespaceLoopHead)
                       /\ UNCHANGED <<namespace, perPage>>
                  [] step = "fallthrough" ->
                       /\ namespace' = LookupNamespaceName(namespaceList, id, namespace)
                       /\ page' = PageAfterNavigate(nav, page)
                       /\ Running(NamespaceLoopHead)
                       /\ UNCHANGED perPage
                  [] step = "break" ->
                       /\ namespace' = LookupNamespaceName(namespaceList, id, namespace)
                       /\ EnterRepositoryStage
                  [] step = "abort" ->
                       /\ CancelReturn("NamespaceCancelled")
                       /\ UNCHANGED <<namespace, page, perPage>>
    /\ UNCHANGED <<configVars, sourceVars, namespaceList,
                   isOnlySingleNamespaceAvailable, providerRepos, chosenRepo,
                   lastFetch, firstNamespaceCount, callVars>>

(* -------------------------- repository stage --------------------------- *)

\* The namespace's name is sent in place of its id.
RepositoriesParentByName(nsId, nsName) == nsName

\* line 181: GetRepositories(ctx, providerId, namespaceId)
RepositoriesParent(nsId, nsName) == nsId

\* lines 176-198: GetRepositories returns, for the selected namespace and the
\* page the cursor is on.
GetRepositories ==
    /\ pc = "GetRepositories"
    /\ calls' = Called("GetRepositories")
    /\ fetchesSincePrompt' = fetchesSincePrompt + 1
    /\ \E failed \in BOOLEAN :
       \E got \in (IF failed THEN {<<>>} ELSE RepoLists) :
          /\ lastFetch' = [kind |-> "repository", page |-> page, perPage |-> perPage,
                           parent |-> RepositoriesParent(namespaceId, namespace),
                           count |-> IF failed THEN -1 ELSE Len(got)]
          /\ providerRepos' = got
          /\ IF failed
             THEN FetchErrorReturn(FetchError, "RepositoryFetchFailed")
             ELSE Running("GetRepositoryFromPrompt")
    /\ UNCHANGED <<configVars, sourceVars, navigate, page, perPage, namespaceList,
                   namespace, namespaceId, isOnlySingleNamespaceAvailable,
                   chosenRepo, lastPrompt, firstNamespaceCount, callVars>>

\* The repository the prompt returned is entered in the map.
SelectedReposRecordingChoice(selected, chosen) ==
    IF chosen = NoRepo THEN selected
    ELSE [id \in DOMAIN selected \cup {chosen.Id} |->
            IF id = chosen.Id THEN 1 ELSE selected[id]]

\* lines 198-212: config.SelectedRepos is handed to the prompt for display
\* and is not written by the loop.
SelectedReposAfterPrompt(selected, chosen) == selected

\* lines 195-217: GetRepositoryFromPrompt returns.
GetRepositoryFromPrompt ==
    /\ pc = "GetRepositoryFromPrompt"
    /\ calls' = Called("GetRepositoryFromPrompt")
    /\ fetchesSincePrompt' = 0
    /\ \E chosen \in {NoRepo} \cup {providerRepos[i] : i \in 1..Len(providerRepos)},
          nav \in NavigateOutcomes :
          LET isPaginationDisabled == RepositoryPaginationDisabled(providerId)
              step == LoopStep(isPaginationDisabled, nav, page, chosen # NoRepo)
          IN /\ step \in {"continue", "fallthrough"} => Navigations < MaxNavigations
             /\ chosenRepo' = chosen
             /\ navigate' = nav
             /\ lastPrompt' = [kind |-> "repository", page |-> page, navigate |-> nav,
                               selected |-> (chosen # NoRepo),
                               paginationDisabled |-> isPaginationDisabled]
             /\ CASE step = "continue" ->
                       /\ page' = PageAfterNavigate(nav, page)
                       /\ Running(RepositoryLoopHead)
                       /\ UNCHANGED branchWizardConfig
                  [] step = "fallthrough" ->
                       /\ page' = PageAfterNavigate(nav, page)
                       /\ Running(RepositoryLoopHead)
                       /\ UNCHANGED branchWizardConfig
                  [] step = "break" ->
                       /\ IF SkipsBranchStage(SkipBranchSelection)
                          THEN /\ Return(chosen, NoErr, "RepositoryChosen")
                               /\ UNCHANGED branchWizardConfig
                          ELSE /\ branchWizardConfig' =
                                     [GitProviderConfigId |-> gitProviderConfigId,
                                      NamespaceId |-> namespaceId,
                                      Namespace |-> namespace,
                                      ChosenRepo |-> chosen,
                                      ProviderId |-> providerId]
                               /\ Running("SetBranchFromWizard")
                       /\ UNCHANGED page
                  [] step = "abort" ->
                       /\ CancelReturn("RepositoryCancelled")
                       /\ UNCHANGED <<page, branchWizardConfig>>
             /\ SelectedRepos' = SelectedReposAfterPrompt(SelectedRepos, chosen)
    /\ UNCHANGED <<UserGitProviders, Manual, SkipBranchSelection, initialSelectedRepos,
                   sourceVars, perPage, namespaceList, namespace,
                   namespaceId, isOnlySingleNamespaceAvailable, providerRepos,
                   lastFetch, firstNamespaceCount, sample>>

(* ---------------------------- branch stage ----------------------------- *)

\* What the branch stage can return: the chosen repository with a branch
\* attached, the cancellation signal, or an error.
BranchStageOutcomes(repo) ==
    {[repo |-> [repo EXCEPT !.Branch = "feature"], err |-> NoErr],
     [repo |-> NoRepo, err |-> ErrCtrlCAbort],
     [repo |-> NoRepo, err |-> "SetBranchError"]}

\* lines 219-227: SetBranchFromWizard returns and the wizard returns its result.
SetBranchFromWizard ==
    /\ pc = "SetBranchFromWizard"
    /\ calls' = Called("SetBranchFromWizard")
    /\ \E out \in BranchStageOutcomes(chosenRepo) :
          Return(out.repo, out.err, "BranchStage")
    /\ UNCHANGED <<configVars, sourceVars, loopVars, observedLoop, callVars>>

(* ------------------------------- Spec ---------------------------------- *)

Next ==
    \/ ListSamples
    \/ GetRepositoryFromUrlInput
    \/ GetProviderIdFromPrompt
    \/ GetSampleFromPrompt
    \/ GetGitContext
    \/ GetNamespaces
    \/ GetNamespaceIdFromPrompt
    \/ GetRepositories
    \/ GetRepositoryFromPrompt
    \/ SetBranchFromWizard

Spec == Init /\ [][Next]_vars

\* Every call the wizard is blocked in returns. The prompts return next or
\* prev at most MaxNavigations times in a run.
FairSpec == Spec /\ WF_vars(Next)

(* ----------------------------- properties ------------------------------ *)

RepositoryStagePcs == {"GetRepositories", "GetRepositoryFromPrompt"}

\* The last prompt was the namespace prompt and the user cancelled it.
NamespacePromptCancelled ==
    /\ lastPrompt.kind = "namespace"
    /\ ~lastPrompt.selected
    /\ lastPrompt.navigate = ""

\* C1: once the namespace prompt has returned neither a selection nor a
\* navigation intent, the wizard has returned common.ErrCtrlCAbort with no
\* repository, and no namespace fetch, repository fetch, repository prompt or
\* branch stage has followed.
C1_NamespaceCancelEndsRun ==
    NamespacePromptCancelled =>
        /\ pc = "done"
        /\ retErr = ErrCtrlCAbort
        /\ retRepo = NoRepo
        /\ fetchesSincePrompt = 0
        /\ calls["GetRepositories"] = 0
        /\ calls["GetRepositoryFromPrompt"] = 0
        /\ calls["SetBranchFromWizard"] = 0

C1_Witness ==
    /\ NamespacePromptCancelled
    /\ pc = "done"
    /\ calls["GetNamespaces"] >= 2

LoopHeadOf(kind) ==
    IF kind = "namespace" THEN "GetNamespaces" ELSE "GetRepositories"

PromptOf(kind) ==
    IF kind = "namespace" THEN "GetNamespaceIdFromPrompt" ELSE "GetRepositoryFromPrompt"

FetchFailed == lastFetch.count = -1

\* The last prompt shown was the prompt of the given stage, with pagination
\* enabled.
AfterPagedPrompt(kind) ==
    /\ lastPrompt.kind = kind
    /\ ~lastPrompt.paginationDisabled

\* The loop of the given stage went back to its head: the wizard is in the
\* fetch at the head, or that one fetch was made and the wizard is in the next
\* prompt or has returned because the fetch failed.
BackAtLoopHead(kind) ==
    \/ pc = LoopHeadOf(kind) /\ fetchesSincePrompt = 0
    \/ /\ \/ pc = PromptOf(kind)
          \/ pc = "done" /\ FetchFailed
       /\ fetchesSincePrompt = 1
       /\ lastFetch.kind = kind
       /\ lastFetch.page = page

PrevAtFirstPage(kind) ==
    /\ AfterPagedPrompt(kind)
    /\ lastPrompt.navigate = "prev"
    /\ lastPrompt.page = 1

\* C2 as stated: when a prompt of either loop has returned prev on page 1 with
\* pagination enabled and the next prompt is shown, the page is still 1 and no
\* fetch was made in between.
C2_PrevAtFirstPageDoesNotRefetch ==
    \A kind \in {"namespace", "repository"} :
        (PrevAtFirstPage(kind) /\ pc = PromptOf(kind)) =>
            /\ page = 1
            /\ fetchesSincePrompt = 0

\* C2 amended: after a prompt of either loop has returned prev on page 1 with
\* pagination enabled, the page is still 1 and the loop goes back to its head:
\* page 1 is fetched again, exactly once, before the next prompt is shown.
C2_PrevAtFirstPageRefetchesOnce ==
    \A kind \in {"namespace", "repository"} :
        PrevAtFirstPage(kind) =>
            /\ page = 1
            /\ BackAtLoopHead(kind)

C2_Witness ==
    /\ PrevAtFirstPage("repository")
    /\ pc = "GetRepositoryFromPrompt"
    /\ calls["GetNamespaces"] = 2
    /\ calls["GetNamespaceIdFromPrompt"] = 2

\* C3: with pagination enabled, after a prompt of either loop has returned
\* next the page is one more than the page the prompt was shown for, after it
\* has returned prev on a page above 1 the page is one less, and exactly one
\* fetch, of the new page, is made before the next prompt is shown.
C3_NavigationMovesOnePageAndFetchesOnce ==
    \A kind \in {"namespace", "repository"} :
        /\ (AfterPagedPrompt(kind) /\ lastPrompt.navigate = "next") =>
              page = lastPrompt.page + 1
        /\ (AfterPagedPrompt(kind) /\ lastPrompt.navigate = "prev" /\ lastPrompt.page > 1) =>
              page = lastPrompt.page - 1
        /\ ( /\ AfterPagedPrompt(kind)
             /\ \/ lastPrompt.navigate = "next"
                \/ lastPrompt.navigate = "prev" /\ lastPrompt.page > 1 ) =>
              BackAtLoopHead(kind)

C3_Witness ==
    /\ AfterPagedPrompt("repository")
    /\ pc = "GetRepositoryFromPrompt"
    /\ lastPrompt.navigate = "prev"
    /\ lastPrompt.page = 2
    /\ page = 1
    /\ calls["GetRepositories"] = 3

\* The namespace stage was left with a selection: the repository stage has
\* started.
NamespaceStageLeft ==
    pc \in RepositoryStagePcs \/ calls["GetRepositories"] > 0

\* C4: if the first namespace fetch returned exactly one item, the namespace
\* prompt is never invoked, the stage is left at once and that item is the
\* selected namespace; if it returned two or more items, the namespace stage
\* is not left before the namespace prompt has been invoked.
C4_SingleNamespaceShortCircuit ==
    /\ firstNamespaceCount = 1 =>
          /\ calls["GetNamespaceIdFromPrompt"] = 0
          /\ pc # "GetNamespaceIdFromPrompt"
          /\ calls["GetNamespaces"] = 1
          /\ NamespaceStageLeft
          /\ Len(namespaceList) = 1
          /\ namespaceId = namespaceList[1].Id
          /\ namespace = namespaceList[1].Name
    /\ firstNamespaceCount >= 2 =>
          /\ pc = "GetNamespaceIdFromPrompt" \/ calls["GetNamespaceIdFromPrompt"] >= 1
          /\ NamespaceStageLeft => calls["GetNamespaceIdFromPrompt"] >= 1

C4_Witness ==
    /\ firstNamespaceCount = 1
    /\ pc = "done"
    /\ retErr = NoErr
    /\ calls["GetRepositoryFromPrompt"] >= 1

\* The last prompt was the repository prompt and the loop was left with the
\* repository it returned.
RepositoryChosen ==
    /\ lastPrompt.kind = "repository"
    /\ lastPrompt.selected
    /\ lastPrompt.paginationDisabled \/ lastPrompt.navigate = ""

\* C5: with SkipBranchSelection set the branch stage is never invoked, and
\* once a repository has been chosen the wizard has returned exactly that
\* repository, as it was listed, with no error.
C5_SkipBranchSelection ==
    SkipBranchSelection =>
        /\ pc # "SetBranchFromWizard"
        /\ calls["SetBranchFromWizard"] = 0
        /\ RepositoryChosen =>
              /\ pc = "done"
              /\ retErr = NoErr
              /\ retRepo = chosenRepo
              /\ \E i \in 1..Len(providerRepos) : retRepo = providerRepos[i]

C5_Witness ==
    /\ SkipBranchSelection
    /\ RepositoryChosen
    /\ pc = "done"
    /\ retRepo = Repo("r2")
    /\ calls["GetRepositories"] >= 2

\* C6: once a namespace or repository fetch has failed, the wizard has
\* returned an error that is not the cancellation signal, with no repository;
\* the failed fetch was the last call of the run: it was not repeated, no
\* prompt followed it and no fetch or call of a later stage was made.
C6_FetchFailureIsFatal ==
    FetchFailed =>
        /\ pc = "done"
        /\ retRepo = NoRepo
        /\ retErr \notin {NoErr, ErrCtrlCAbort}
        /\ fetchesSincePrompt = 1
        /\ lastFetch.kind = "namespace" =>
              /\ calls["GetRepositories"] = 0
              /\ calls["GetRepositoryFromPrompt"] = 0
              /\ lastPrompt.kind \in {"", "namespace"}
        /\ calls["SetBranchFromWizard"] = 0

C6_Witness ==
    /\ FetchFailed
    /\ lastFetch.kind = "repository"
    /\ lastFetch.page = 2
    /\ pc = "done"

NoPagedFetch ==
    /\ calls["GetNamespaces"] = 0
    /\ calls["GetRepositories"] = 0
    /\ calls["SetBranchFromWizard"] = 0

\* C7: once ListSamples has returned, if no provider is configured and the
\* sample list is empty, or Manual is set, the wizard is in manual URL entry
\* or has returned its result, the provider prompt was never shown and no
\* paged fetch was made; in every other case the provider prompt is being
\* shown or has been shown.
C7_ManualEntryBypass ==
    pc # "ListSamples" =>
        IF (Len(UserGitProviders) = 0 /\ Len(samples) = 0) \/ Manual
        THEN /\ calls["GetProviderIdFromPrompt"] = 0
             /\ pc \in {"GetRepositoryFromUrlInput", "done"}
             /\ NoPagedFetch
             /\ calls["GetSampleFromPrompt"] = 0
             /\ calls["GetGitContext"] = 0
             /\ pc = "done" =>
                   /\ calls["GetRepositoryFromUrlInput"] = 1
                   /\ [repo |-> retRepo, err |-> retErr] \in UrlInputOutcomes
        ELSE \/ pc = "GetProviderIdFromPrompt" /\ calls["GetProviderIdFromPrompt"] = 0
             \/ calls["GetProviderIdFromPrompt"] = 1

C7_Witness ==
    /\ Len(UserGitProviders) = 0
    /\ Len(samples) = 0
    /\ ~Manual
    /\ pc = "done"
    /\ retErr = NoErr

\* C8: once ListSamples has failed with a provider configured and Manual not
\* set, the wizard has no samples and is in the provider prompt or past it,
\* the create-from-sample option is not offered and never taken, and manual
\* URL entry is reached only by the custom URL option.
C8_SampleListFailureIsNotFatal ==
    (samplesFailed /\ Len(UserGitProviders) > 0 /\ ~Manual /\ pc # "ListSamples") =>
        /\ samples = <<>>
        /\ ~sampleOffered
        /\ \/ pc = "GetProviderIdFromPrompt" /\ calls["GetProviderIdFromPrompt"] = 0
           \/ calls["GetProviderIdFromPrompt"] = 1
        /\ gitProviderConfigId # CREATE_FROM_SAMPLE
        /\ calls["GetSampleFromPrompt"] = 0
        /\ calls["GetGitContext"] = 0
        /\ pc # "GetSampleFromPrompt"
        /\ (pc = "GetRepositoryFromUrlInput" \/ calls["GetRepositoryFromUrlInput"] > 0) =>
              gitProviderConfigId = CustomRepoIdentifier

C8_Witness ==
    /\ samplesFailed
    /\ Len(UserGitProviders) > 0
    /\ ~Manual
    /\ pc = "done"
    /\ RepositoryChosen
    /\ retErr = NoErr
    /\ retRepo # NoRepo

\* Provider ids the predicates are evaluated on: the supported kinds, the
\* empty id, and ids that are not in the switch.
ProviderIdUniverse ==
    GetSupportedGitProviders
        \cup {"", "unknown-kind", "github-enterprise-server", "gitlab-self-managed",
              "gitea", "codeberg", "Bitbucket", "azure"}

NoNamespacePagination == {"azure-devops", "bitbucket", "gitness", "aws-codecommit"}

NoRepositoryPagination == {"azure-devops", "gitness", "aws-codecommit"}

\* C9: pagination is disabled for namespaces exactly for azure-devops,
\* bitbucket, gitness and aws-codecommit, and for repositories exactly for
\* azure-devops, gitness and aws-codecommit; every namespace and repository
\* prompt is shown with the flag of its stage, and a next returned by the
\* repository prompt of a bitbucket provider moves the page.
C9_PaginationDisabledPerProviderAndKind ==
    /\ \A id \in ProviderIdUniverse :
          /\ NamespacePaginationDisabled(id) <=> id \in NoNamespacePagination
          /\ RepositoryPaginationDisabled(id) <=> id \in NoRepositoryPagination
    /\ lastPrompt.kind = "namespace" =>
          (lastPrompt.paginationDisabled <=> providerId \in NoNamespacePagination)
    /\ lastPrompt.kind = "repository" =>
          (lastPrompt.paginationDisabled <=> providerId \in NoRepositoryPagination)
    /\ (lastPrompt.kind = "repository" /\ providerId = "bitbucket"
            /\ lastPrompt.navigate = "next") =>
          /\ page = lastPrompt.page + 1
          /\ BackAtLoopHead("repository")

C9_Witness ==
    /\ providerId = "bitbucket"
    /\ calls["GetNamespaceIdFromPrompt"] = 1
    /\ lastPrompt.kind = "repository"
    /\ lastPrompt.navigate = "next"
    /\ pc = "GetRepositoryFromPrompt"
    /\ page = 2

\* C10: when pagination is disabled for a stage's provider and kind, that
\* stage fetches once in the whole run, page 1: never more than once, and
\* exactly once when its prompt has been shown or the run has ended in it or
\* after it.
C10_OneFetchWithoutPagination ==
    /\ providerId \in NoNamespacePagination =>
          /\ calls["GetNamespaces"] <= 1
          /\ lastFetch.kind = "namespace" => lastFetch.page = 1
          /\ (pc # "GetNamespaces" /\ gitProviderConfigId \notin
                    {"", CustomRepoIdentifier, CREATE_FROM_SAMPLE}) =>
                calls["GetNamespaces"] = 1
    /\ providerId \in NoRepositoryPagination =>
          /\ calls["GetRepositories"] <= 1
          /\ lastFetch.kind = "repository" => lastFetch.page = 1
          /\ (lastPrompt.kind = "repository" \/ pc = "GetRepositoryFromPrompt") =>
                calls["GetRepositories"] = 1

C10_Witness ==
    /\ providerId = "gitness"
    /\ lastPrompt.kind = "repository"
    /\ lastPrompt.navigate = "next"
    /\ lastPrompt.selected
    /\ pc = "done"
    /\ calls["GetNamespaceIdFromPrompt"] = 1
    /\ calls["GetNamespaces"] = 1
    /\ calls["GetRepositories"] = 1

\* The prompts the user cancelled: the provider prompt returned no id, the
\* sample prompt no sample, a paged prompt neither a selection nor a
\* navigation intent.
ProviderPromptCancelled ==
    calls["GetProviderIdFromPrompt"] = 1 /\ gitProviderConfigId = ""

SamplePromptCancelled ==
    calls["GetSampleFromPrompt"] = 1 /\ sample = NoSample

RepositoryPromptCancelled ==
    /\ lastPrompt.kind = "repository"
    /\ ~lastPrompt.selected
    /\ lastPrompt.navigate = ""

SomePromptCancelled ==
    \/ ProviderPromptCancelled
    \/ SamplePromptCancelled
    \/ NamespacePromptCancelled
    \/ RepositoryPromptCancelled

\* The run ended with a failed fetch or a failed sample resolution.
EndedInFailure ==
    pc = "done" /\ (FetchFailed \/ endedBy = "GitContextFailed")

\* C11: once the provider, sample, namespace or repository prompt has been
\* cancelled, the wizard has returned common.ErrCtrlCAbort itself with no
\* repository; and a run that ended with a failed fetch or a failed sample
\* resolution did not return common.ErrCtrlCAbort.
C11_CancellationReturnedUnwrapped ==
    /\ SomePromptCancelled =>
          /\ pc = "done"
          /\ retErr = ErrCtrlCAbort
          /\ retRepo = NoRepo
    /\ EndedInFailure =>
          /\ retErr \notin {ErrCtrlCAbort, NoErr}
          /\ ~SomePromptCancelled

C11_Witness ==
    /\ SamplePromptCancelled
    /\ pc = "done"
    /\ retErr = ErrCtrlCAbort

\* An error wrapped with the context of the resource kind that failed.
Tagged(tag, err) == tag \o ": " \o err

FailedToLoad(kind) ==
    IF kind = "namespace" THEN "failed to load namespaces"
    ELSE "failed to load repositories"

\* C12: once a namespace or repository fetch has failed, the error the
\* wizard returned is the fetch's error tagged "failed to load namespaces" or
\* "failed to load repositories", by the kind of the fetch that failed.
C12_FetchErrorTaggedWithKind ==
    (FetchFailed /\ pc = "done") =>
        retErr = Tagged(FailedToLoad(lastFetch.kind), FetchError)

\* C13: once the provider prompt has returned the create-from-sample option,
\* the sample prompt is shown once; if it returned no sample the wizard has
\* returned common.ErrCtrlCAbort without calling GetGitContext; if it
\* returned a sample, GetGitContext is called once and the wizard returns its
\* repository, or an error with no repository when it failed; and no
\* namespace, repository or branch fetch is made.
C13_SampleFlow ==
    gitProviderConfigId = CREATE_FROM_SAMPLE =>
        /\ NoPagedFetch
        /\ calls["GetNamespaceIdFromPrompt"] = 0
        /\ calls["GetRepositoryFromPrompt"] = 0
        /\ calls["GetRepositoryFromUrlInput"] = 0
        /\ \/ pc = "GetSampleFromPrompt" /\ calls["GetSampleFromPrompt"] = 0
           \/ calls["GetSampleFromPrompt"] = 1
        /\ SamplePromptCancelled =>
              /\ pc = "done"
              /\ retErr = ErrCtrlCAbort
              /\ retRepo = NoRepo
              /\ calls["GetGitContext"] = 0
        /\ (calls["GetSampleFromPrompt"] = 1 /\ sample # NoSample) =>
              /\ \E i \in 1..Len(samples) : sample = samples[i]
              /\ \/ pc = "GetGitContext" /\ calls["GetGitContext"] = 0
                 \/ /\ pc = "done"
                    /\ calls["GetGitContext"] = 1
                    /\ \/ retErr = NoErr /\ retRepo # NoRepo
                       \/ retErr = GitContextError /\ retRepo = NoRepo

C13_Witness ==
    /\ gitProviderConfigId = CREATE_FROM_SAMPLE
    /\ sample = "s1"
    /\ pc = "done"
    /\ retErr = GitContextError
    /\ Len(UserGitProviders) = 0

\* The repository the last prompt returned is already a key of SelectedRepos.
ChosenAlreadySelected ==
    /\ RepositoryChosen
    /\ chosenRepo.Id \in DOMAIN SelectedRepos

\* C14: config.SelectedRepos is the same map from the start of a run to its
\* end, and a repository whose id is already a key of the map leaves the
\* repository loop like any other: it goes on to the branch stage or is
\* returned as the result.
C14_SelectedReposReadOnly ==
    /\ SelectedRepos = initialSelectedRepos
    /\ ChosenAlreadySelected =>
          /\ pc \in {"SetBranchFromWizard", "done"}
          /\ endedBy # "RepositoryCancelled"
          /\ pc = "SetBranchFromWizard" => branchWizardConfig.ChosenRepo = chosenRepo
          /\ (pc = "done" /\ SkipBranchSelection) =>
                retRepo = chosenRepo /\ retErr = NoErr

C14_Witness ==
    /\ ChosenAlreadySelected
    /\ SelectedRepos # EmptyMap
    /\ pc = "done"
    /\ retErr = NoErr
    /\ retRepo.Id = chosenRepo.Id

LoopPcs ==
    {"GetNamespaces", "GetNamespaceIdFromPrompt", "GetRepositories",
     "GetRepositoryFromPrompt"}

\* Inside the two loops, and in every fetch made, the page is at least 1 and
\* the page size is 100.
PageCursorInRange ==
    /\ pc \in LoopPcs => page >= 1 /\ perPage = PerPage
    /\ lastFetch # NoFetch => lastFetch.page >= 1 /\ lastFetch.perPage = PerPage

\* A step that changes the page is the return of a prompt with a next or a
\* prev outcome, which stays in its loop, or the start of a loop, which sets
\* the cursor of that loop.
PageMovedByNavigation ==
    page' # page =>
        \/ /\ pc \in {"GetNamespaceIdFromPrompt", "GetRepositoryFromPrompt"}
           /\ lastPrompt'.navigate \in {"next", "prev"}
           /\ lastPrompt'.page = page
           /\ pc' = LoopHeadOf(lastPrompt'.kind)
        \/ /\ pc \in {"GetProviderIdFromPrompt", "GetNamespaces",
                    "GetNamespaceIdFromPrompt"}
           /\ pc' \in {NamespaceLoopHead, RepositoryLoopHead}
           /\ pc' # LoopHeadOf(lastPrompt'.kind)
           /\ page' = FirstPage

\* C15: in the namespace and repository loops page >= 1 and perPage = 100, so
\* every fetch is made with a page of at least 1 and a page size of 100; and
\* within a loop the page changes only when a prompt returns next or prev.
C15_PageCursor == []PageCursorInRange /\ [][PageMovedByNavigation]_vars

C15_Witness ==
    /\ lastFetch.kind = "repository"
    /\ lastFetch.page = 2
    /\ lastFetch.perPage = PerPage
    /\ lastPrompt.kind = "repository"
    /\ lastPrompt.navigate = "prev"
    /\ page = 1

\* The fetch of this kind that has returned and has not been followed by its
\* prompt: the one whose prompt is open, or the one that failed.
PendingFetches(kind) ==
    IF pc = PromptOf(kind) \/ (FetchFailed /\ lastFetch.kind = kind) THEN 1 ELSE 0

\* Every page of this kind that was fetched was shown in the prompt.
EveryPagePrompted(kind) ==
    calls[PromptOf(kind)] = calls[LoopHeadOf(kind)] - PendingFetches(kind)

\* C16: a namespace is selected without a prompt only when the very first
\* namespace fetch returned exactly one item; once the first fetch returned
\* another number of items every namespace page fetched, a page of exactly one
\* item included, is shown in the prompt; and every page of repositories
\* fetched, a page of exactly one repository included, is shown in the prompt.
C16_ShortCircuitOnlyOnFirstNamespaceFetch ==
    /\ firstNamespaceCount = 1 =>
          calls["GetNamespaces"] = 1 /\ calls["GetNamespaceIdFromPrompt"] = 0
    /\ firstNamespaceCount # 1 => EveryPagePrompted("namespace")
    /\ (firstNamespaceCount # 1 /\ lastFetch.kind = "namespace" /\ lastFetch.count = 1
          /\ fetchesSincePrompt > 0) =>
          pc = "GetNamespaceIdFromPrompt"
    /\ EveryPagePrompted("repository")
    /\ (lastFetch.kind = "repository" /\ lastFetch.count = 1 /\ fetchesSincePrompt > 0) =>
          pc = "GetRepositoryFromPrompt"

C16_Witness ==
    /\ firstNamespaceCount = 2
    /\ calls["GetNamespaces"] = 2
    /\ lastFetch.kind = "repository"
    /\ lastFetch.count = 1
    /\ pc = "GetRepositoryFromPrompt"
    /\ namespaceList = <<Namespace("ns1")>>
    /\ calls["GetNamespaceIdFromPrompt"] = 2

\* The repository loop has been entered.
RepositoryStageEntered == pc = "GetRepositories" \/ calls["GetRepositories"] > 0

\* The namespace loop ended with a namespace of the page it listed last:
\* the only one of the first page, taken without a prompt, or the one the
\* prompt returned.
NamespaceSelected ==
    /\ namespaceId \in ListedIds(namespaceList)
    /\ namespace = Namespace(namespaceId).Name
    /\ calls["GetNamespaces"] > 0
    /\ IF calls["GetNamespaceIdFromPrompt"] = 0
       THEN firstNamespaceCount = 1 /\ namespaceId = namespaceList[1].Id
       ELSE EveryPagePrompted("namespace")

\* The branch stage has been started.
BranchStageEntered == pc = "SetBranchFromWizard" \/ calls["SetBranchFromWizard"] > 0

\* C17: the repository loop is entered only with a namespace selected by the
\* namespace loop, every repository fetch is made with the id of that
\* namespace as its parent, and the branch stage is started only after the
\* repository prompt returned a repository, with that repository and that
\* namespace.
C17_StageOrderAndParentScope ==
    /\ RepositoryStageEntered => NamespaceSelected
    /\ lastFetch.kind = "repository" =>
          /\ RepositoryStageEntered
          /\ lastFetch.parent = namespaceId
    /\ BranchStageEntered =>
          /\ RepositoryChosen
          /\ \E i \in 1..Len(providerRepos) : chosenRepo = providerRepos[i]
          /\ lastFetch.kind = "repository"
          /\ branchWizardConfig.ChosenRepo = chosenRepo
          /\ branchWizardConfig.NamespaceId = namespaceId
          /\ branchWizardConfig.Namespace = namespace
          /\ branchWizardConfig.ProviderId = providerId
          /\ branchWizardConfig.GitProviderConfigId = gitProviderConfigId
    /\ ~BranchStageEntered => branchWizardConfig = NoBranchWizardConfig

C17_Witness ==
    /\ calls["SetBranchFromWizard"] = 1
    /\ calls["GetNamespaceIdFromPrompt"] = 1
    /\ lastFetch.parent = "ns2"
    /\ branchWizardConfig.NamespaceId = "ns2"
    /\ branchWizardConfig.ChosenRepo = Repo("r2")
    /\ retErr = NoErr

\* The last prompt had pagination disabled and returned a navigation intent.
NavigationWithoutPagination ==
    lastPrompt.paginationDisabled /\ lastPrompt.navigate # ""

\* C18: when a prompt whose pagination is disabled returns next or prev, the
\* page stays where it was and the page is not fetched again: without a
\* selection the wizard has returned common.ErrCtrlCAbort, and with a
\* selection the loop was left with it.
C18_NavigationIgnoredWithoutPagination ==
    NavigationWithoutPagination =>
        /\ page = lastPrompt.page
        /\ calls[LoopHeadOf(lastPrompt.kind)] = 1
        /\ calls[PromptOf(lastPrompt.kind)] = 1
        /\ pc \notin {LoopHeadOf(lastPrompt.kind), PromptOf(lastPrompt.kind)}
        /\ ~lastPrompt.selected =>
              /\ pc = "done"
              /\ retErr = ErrCtrlCAbort
              /\ retRepo = NoRepo
        /\ (lastPrompt.selected /\ lastPrompt.kind = "namespace") =>
              /\ RepositoryStageEntered
              /\ NamespaceSelected
              /\ retErr # ErrCtrlCAbort
        /\ (lastPrompt.selected /\ lastPrompt.kind = "repository") =>
              /\ chosenRepo # NoRepo
              /\ \/ BranchStageEntered /\ branchWizardConfig.ChosenRepo = chosenRepo
                 \/ pc = "done" /\ retRepo = chosenRepo /\ retErr = NoErr

C18_Witness ==
    /\ NavigationWithoutPagination
    /\ lastPrompt.kind = "repository"
    /\ lastPrompt.navigate = "next"
    /\ lastPrompt.selected
    /\ pc = "done"
    /\ retRepo = chosenRepo
    /\ calls["GetRepositories"] = 1

\* C19: the repository loop starts on page 1 whatever page of namespaces the
\* namespace was selected on: the first repository fetch of a run is made for
\* page 1.
C19_FirstRepositoryFetchIsPageOne ==
    /\ (pc = "GetRepositories" /\ calls["GetRepositories"] = 0) =>
          page = FirstPage /\ perPage = PerPage
    /\ (lastFetch.kind = "repository" /\ calls["GetRepositories"] = 1) =>
          lastFetch.page = FirstPage

C19_Witness ==
    /\ lastPrompt.kind = "namespace"
    /\ lastPrompt.page = 2
    /\ lastPrompt.selected
    /\ lastFetch.kind = "repository"
    /\ lastFetch.page = FirstPage
    /\ calls["GetRepositories"] = 1

\* The wizard has returned a repository and no error, or no repository and
\* common.ErrCtrlCAbort, or no repository and another error.
ReturnedOneResult ==
    \/ retRepo # NoRepo /\ retErr = NoErr
    \/ retRepo = NoRepo /\ retErr = ErrCtrlCAbort
    \/ retRepo = NoRepo /\ retErr \notin {NoErr, ErrCtrlCAbort}

\* C20: when every call returns and the prompts stop returning next and prev,
\* the wizard returns, and what it returns is exactly one of a repository,
\* common.ErrCtrlCAbort, or another error.
C20_Termination ==
    /\ <>(pc = "done")
    /\ [](pc = "done" => ReturnedOneResult /\ endedBy # "")
    /\ [](pc # "done" => retRepo = NoRepo /\ retErr = NoErr /\ endedBy = "")

C20_Witness ==
    /\ pc = "done"
    /\ Navigations = MaxNavigations
    /\ calls["GetNamespaceIdFromPrompt"] > 0
    /\ calls["GetRepositoryFromPrompt"] > 0
    /\ retRepo = chosenRepo
    /\ retRepo # NoRepo

====
